---- MODULE Spec2Model ----
(***************************************************************************)
(* Model of src/logging.rs: the StatisticLogger around-middleware.         *)
(*                                                                         *)
(* Request threads run LogHandler::handle (time_it around the inner        *)
(* handler, status extraction, lock + clone of the Sender, send, return).  *)
(* One worker thread, spawned by StatisticLogger::new, iterates over the   *)
(* Receiver and calls LogWriter::log on every packet, panicking on the     *)
(* first Err.  The std::sync::mpsc channel is modelled by its queue, the   *)
(* number of live Sender handles and the liveness of the Receiver.         *)
(***************************************************************************)
EXTENDS Integers, Sequences, FiniteSets, TLC

\* ---------------------------------------------------------------- bounds
NumProducers == 2          \* request threads of the web server
MaxRequests  == 3          \* total number of requests the server accepts

MaxClock     == 3          \* ticks of the monotonic clock that are followed

Producers == 1..NumProducers

\* ----------------------------------------------------- values of the code
\* Outcomes of the inner handler: IronResult<Response> is Ok(Response) or
\* Err(IronError); both carry a response status.  One success and one
\* failure outcome are enumerated.
Results ==
    { [ok |-> TRUE,  status |-> 200],
      [ok |-> FALSE, status |-> 500] }

\* Option<Status>::None of iron::Response.status (line 19)
NoStatus == 0

NoResult == [none |-> TRUE]
NoPacket == [none |-> TRUE]

VARIABLES
    pc,               \* position of each request thread inside handle
    nreq,             \* number of requests each thread has started
    response_result,  \* handle: result of the inner handler
    ret,              \* handle: the value returned to the caller
    sendRes,          \* handle: Result of tx.send ("none" before the call)
    innerCalls,       \* handle: calls of self.handler.handle in this request
    sendCalls,        \* handle: calls of tx.send in this request
    mutexHolder,      \* LogHandler.tx : Mutex, 0 when unlocked
    poisoned,         \* LogHandler.tx : Mutex poison flag
    handlerAlive,     \* the LogHandler (and the Sender in its Mutex) exists
    senders,          \* channel: number of live Sender handles
    rxAlive,          \* channel: the Receiver has not been dropped
    queue,            \* channel: packets sent and not yet received
    wpc,              \* position of the worker thread
    inflight,         \* worker: the packet bound by `for packet in rx`
    sinkCalls,        \* calls of logger.log so far: <<packet, ok>>
    sent,             \* history: packets whose send returned Ok, in order
    sink,             \* FileLogger::new: "unopened", "open" or "failed"
    unflushed,        \* FileLogger: rows in the csv::Writer not yet flushed
    wall,             \* SystemTime::now(), in ticks
    mono,             \* Instant::now(), in ticks
    start,            \* time_it: start, per request thread
    before,           \* time_it: before, per request thread
    timing,           \* time_it: timing, per request thread
    elapsed,          \* history: monotonic ticks spent inside the inner handler
    encPkt,           \* LogPacket::encode: the packet being encoded
    encRow            \* LogPacket::encode: the fields emitted, << >> before

vars == << pc, nreq, response_result, ret, sendRes, innerCalls, sendCalls,
           mutexHolder, poisoned, handlerAlive, senders, rxAlive, queue,
           wpc, inflight, sinkCalls, sent, sink, unflushed, wall, mono,
           start, before, timing, elapsed, encPkt, encRow >>

producerVars == << pc, nreq, response_result, ret, sendRes, innerCalls, sendCalls >>
mutexVars    == << mutexHolder, poisoned >>
workerVars   == << wpc, inflight, sinkCalls >>
sinkVars     == << sink, unflushed >>
clockVars    == << wall, mono >>
markVars     == << start, before, timing, elapsed >>
encVars      == << encPkt, encRow >>

\* ------------------------------------------------------------- helpers
RECURSIVE SumReq(_, _)
SumReq(f, n) == IF n = 0 THEN 0 ELSE f[n] + SumReq(f, n - 1)

\* requests accepted so far by all threads
Started == SumReq(nreq, NumProducers)

\* handle, lines 118-120: the status of whichever branch was taken
StatusOf(r) == r.status

\* Instant::duration_since (line 147): the ticks from `earlier` to `later`
DurationSince(later, earlier) == later - earlier

\* faulty variant: the duration is measured when the packet is built
MkPacket_Late(p) ==
    [ prod   |-> p,
      seq    |-> nreq[p],
      status |-> StatusOf(response_result[p]),
      start  |-> start[p],
      timing |-> DurationSince(mono, before[p]) ]

\* handle, lines 127-132: the LogPacket built for the current request.
\* (prod, seq) stands for the request's url and remote_addr.
MkPacket(p) ==
    [ prod   |-> p,
      seq    |-> nreq[p],
      status |-> StatusOf(response_result[p]),
      start  |-> start[p],
      timing |-> timing[p] ]

\* ------------------------------------------------------------------ Init
\* State after StatisticLogger::new(logger) and .around(handler): the
\* channel is empty, one Sender lives in the handler's Mutex, the worker
\* waits in rx's iterator.
Init ==
    /\ pc = [p \in Producers |-> "idle"]
    /\ nreq = [p \in Producers |-> 0]
    /\ response_result = [p \in Producers |-> NoResult]
    /\ ret = [p \in Producers |-> NoResult]
    /\ sendRes = [p \in Producers |-> "none"]
    /\ innerCalls = [p \in Producers |-> 0]
    /\ sendCalls = [p \in Producers |-> 0]
    /\ mutexHolder = 0
    /\ poisoned = FALSE
    /\ handlerAlive = TRUE
    /\ senders = 1
    /\ rxAlive = TRUE
    /\ queue = << >>
    /\ wpc = "recv"
    /\ inflight = NoPacket
    /\ sinkCalls = << >>
    /\ sent = << >>
    /\ sink = "open"
    /\ unflushed = 0
    /\ wall = 0
    /\ mono = 0
    /\ start = [p \in Producers |-> 0]
    /\ before = [p \in Producers |-> 0]
    /\ timing = [p \in Producers |-> 0]
    /\ elapsed = [p \in Producers |-> 0]
    /\ encPkt = NoPacket
    /\ encRow = << >>

\* -------------------------------------------------------- request threads
\* handle is entered, time_it takes its start marks (lines 116, 142-143)
\* and enters the inner handler.
Begin(p) ==
    /\ pc[p] = "idle"
    /\ handlerAlive
    /\ Started < MaxRequests
    /\ pc' = [pc EXCEPT ![p] = "inner"]
    /\ nreq' = [nreq EXCEPT ![p] = @ + 1]
    /\ response_result' = [response_result EXCEPT ![p] = NoResult]
    /\ ret' = [ret EXCEPT ![p] = NoResult]
    /\ sendRes' = [sendRes EXCEPT ![p] = "none"]
    /\ innerCalls' = [innerCalls EXCEPT ![p] = 0]
    /\ sendCalls' = [sendCalls EXCEPT ![p] = 0]
    /\ UNCHANGED << mutexVars, handlerAlive, senders, rxAlive, queue,
                    workerVars, sent >>
    /\ start' = [start EXCEPT ![p] = wall]
    /\ before' = [before EXCEPT ![p] = mono]
    /\ timing' = [timing EXCEPT ![p] = 0]
    /\ elapsed' = [elapsed EXCEPT ![p] = 0]
    /\ UNCHANGED << sinkVars, clockVars, encVars >>

\* faulty variant: only successful responses are logged; a failure is returned at once
InnerHandle_OkOnly(p) ==
    /\ pc[p] = "inner"
    /\ \E r \in Results :
          /\ response_result' = [response_result EXCEPT ![p] = r]
          /\ pc' = [pc EXCEPT ![p] = IF r.ok THEN "handled" ELSE "sent"]
    /\ innerCalls' = [innerCalls EXCEPT ![p] = @ + 1]
    /\ UNCHANGED << nreq, ret, sendRes, sendCalls, mutexVars, handlerAlive,
                    senders, rxAlive, queue, workerVars, sent >>
    /\ timing' = [timing EXCEPT ![p] = DurationSince(mono, before[p])]
    /\ UNCHANGED << start, before, elapsed, sinkVars, clockVars, encVars >>

\* faulty variant: the duration is taken from the wall clock
InnerHandle_WallClock(p) ==
    /\ pc[p] = "inner"
    /\ \E r \in Results :
          response_result' = [response_result EXCEPT ![p] = r]
    /\ innerCalls' = [innerCalls EXCEPT ![p] = @ + 1]
    /\ pc' = [pc EXCEPT ![p] = "handled"]
    /\ UNCHANGED << nreq, ret, sendRes, sendCalls, mutexVars, handlerAlive,
                    senders, rxAlive, queue, workerVars, sent >>
    /\ timing' = [timing EXCEPT ![p] =
                     IF wall >= start[p] THEN wall - start[p] ELSE 0]
    /\ UNCHANGED << start, before, elapsed, sinkVars, clockVars, encVars >>

\* time_it calls f(), i.e. self.handler.handle(req), once (line 144), takes
\* the end mark when it returns and computes timing (lines 145-149).
InnerHandle(p) ==
    /\ pc[p] = "inner"
    /\ \E r \in Results :
          response_result' = [response_result EXCEPT ![p] = r]
    /\ innerCalls' = [innerCalls EXCEPT ![p] = @ + 1]
    /\ pc' = [pc EXCEPT ![p] = "handled"]
    /\ UNCHANGED << nreq, ret, sendRes, sendCalls, mutexVars, handlerAlive,
                    senders, rxAlive, queue, workerVars, sent >>
    /\ timing' = [timing EXCEPT ![p] = DurationSince(mono, before[p])]
    /\ UNCHANGED << start, before, elapsed, sinkVars, clockVars, encVars >>

\* self.tx.lock().expect(..) (line 123): blocks while another thread holds
\* the guard; panics when the mutex is poisoned.
Lock(p) ==
    /\ pc[p] = "handled"
    /\ mutexHolder = 0
    /\ IF poisoned
          THEN /\ pc' = [pc EXCEPT ![p] = "panicked"]
               /\ UNCHANGED mutexHolder
          ELSE /\ pc' = [pc EXCEPT ![p] = "locked"]
               /\ mutexHolder' = p
    /\ UNCHANGED << nreq, response_result, ret, sendRes, innerCalls,
                    sendCalls, poisoned, handlerAlive, senders, rxAlive,
                    queue, workerVars, sent >>
    /\ UNCHANGED << sinkVars, clockVars, markVars, encVars >>

\* faulty variant: the Sender is moved out of the Mutex instead of cloned
CloneTx_Take(p) ==
    /\ pc[p] = "locked"
    /\ mutexHolder = p
    /\ senders' = senders
    /\ mutexHolder' = 0
    /\ pc' = [pc EXCEPT ![p] = "cloned"]
    /\ UNCHANGED << nreq, response_result, ret, sendRes, innerCalls,
                    sendCalls, poisoned, handlerAlive, rxAlive, queue,
                    workerVars, sent >>
    /\ UNCHANGED << sinkVars, clockVars, markVars, encVars >>

\* faulty variant: the guard lives until the end of handle, so send runs
\* with the Mutex held
CloneTx_HoldGuard(p) ==
    /\ pc[p] = "locked"
    /\ mutexHolder = p
    /\ senders' = senders + 1
    /\ mutexHolder' = p
    /\ pc' = [pc EXCEPT ![p] = "cloned"]
    /\ UNCHANGED << nreq, response_result, ret, sendRes, innerCalls,
                    sendCalls, poisoned, handlerAlive, rxAlive, queue,
                    workerVars, sent >>
    /\ UNCHANGED << sinkVars, clockVars, markVars, encVars >>

\* guard.clone() and the end of the block (lines 124-125): one more Sender,
\* the guard is dropped.
CloneTx(p) ==
    /\ pc[p] = "locked"
    /\ mutexHolder = p
    /\ senders' = senders + 1
    /\ mutexHolder' = 0
    /\ pc' = [pc EXCEPT ![p] = "cloned"]
    /\ UNCHANGED << nreq, response_result, ret, sendRes, innerCalls,
                    sendCalls, poisoned, handlerAlive, rxAlive, queue,
                    workerVars, sent >>
    /\ UNCHANGED << sinkVars, clockVars, markVars, encVars >>

\* tx.send(LogPacket {..}).expect(..) (lines 127-133), for a channel whose
\* send is enabled when `ready`, returns Ok when `accepts`, and whose Err is
\* followed by position `onErr`.  On Ok the packet is appended to the queue.
\* On Err, expect panics: the unwinding drops the clone (and would poison
\* the mutex if the guard were still held).
SendVia(p, ready, accepts, onErr) ==
    /\ pc[p] = "cloned"
    /\ ready
    /\ sendCalls' = [sendCalls EXCEPT ![p] = @ + 1]
    /\ IF accepts
          THEN /\ queue' = Append(queue, MkPacket(p))
               /\ sent' = Append(sent, MkPacket(p))
               /\ sendRes' = [sendRes EXCEPT ![p] = "ok"]
               /\ pc' = [pc EXCEPT ![p] = "sent"]
               /\ UNCHANGED << senders, mutexVars >>
          ELSE /\ sendRes' = [sendRes EXCEPT ![p] = "err"]
               /\ pc' = [pc EXCEPT ![p] = onErr]
               /\ senders' = IF onErr = "panicked" THEN senders - 1 ELSE senders
               /\ poisoned' = (poisoned \/ (onErr = "panicked" /\ mutexHolder = p))
               /\ mutexHolder' = IF mutexHolder = p THEN 0 ELSE mutexHolder
               /\ UNCHANGED << queue, sent >>
    /\ UNCHANGED << nreq, response_result, ret, innerCalls, handlerAlive,
                    rxAlive, workerVars >>
    /\ UNCHANGED << sinkVars, clockVars, markVars, encVars >>

\* faulty variant: a bounded sync_channel(1) whose send blocks while the queue is full
Send_Bounded(p) == SendVia(p, Len(queue) < 1, rxAlive, "panicked")

\* faulty variant: a bounded channel used with try_send, which fails when full
Send_TrySend(p) == SendVia(p, TRUE, rxAlive /\ Len(queue) < 1, "panicked")

\* faulty variant: the Err of send is discarded (`let _ = tx.send(..)`)
Send_IgnoreErr(p) == SendVia(p, TRUE, rxAlive, "sent")

\* faulty variant: when the channel is closed the request thread writes the
\* record to the sink itself
Send_Fallback(p) ==
    /\ pc[p] = "cloned"
    /\ sendCalls' = [sendCalls EXCEPT ![p] = @ + 1]
    /\ pc' = [pc EXCEPT ![p] = "sent"]
    /\ IF rxAlive
          THEN /\ queue' = Append(queue, MkPacket(p))
               /\ sent' = Append(sent, MkPacket(p))
               /\ sendRes' = [sendRes EXCEPT ![p] = "ok"]
               /\ UNCHANGED sinkCalls
          ELSE /\ sendRes' = [sendRes EXCEPT ![p] = "err"]
               /\ sinkCalls' = Append(sinkCalls, << MkPacket(p), TRUE >>)
               /\ UNCHANGED << queue, sent >>
    /\ UNCHANGED << nreq, response_result, ret, innerCalls, handlerAlive,
                    senders, mutexVars, rxAlive, wpc, inflight >>
    /\ UNCHANGED << sinkVars, clockVars, markVars, encVars >>

\* mpsc::channel() (line 82) is unbounded: send never blocks, and it returns
\* Err only when the Receiver has been dropped; expect panics on it.
Send(p) == SendVia(p, TRUE, rxAlive, "panicked")

\* faulty variant: the failure branch is turned into a success with the same status
Return_Flatten(p) ==
    /\ pc[p] = "sent"
    /\ ret' = [ret EXCEPT ![p] = [ok |-> TRUE, status |-> response_result[p].status]]
    /\ senders' = senders - 1
    /\ pc' = [pc EXCEPT ![p] = "idle"]
    /\ UNCHANGED << nreq, response_result, sendRes, innerCalls, sendCalls,
                    mutexVars, handlerAlive, rxAlive, queue, workerVars, sent >>
    /\ UNCHANGED << sinkVars, clockVars, markVars, encVars >>

\* response_result is returned (line 135); the clone goes out of scope.
Return(p) ==
    /\ pc[p] = "sent"
    /\ ret' = [ret EXCEPT ![p] = response_result[p]]
    /\ senders' = senders - 1
    /\ pc' = [pc EXCEPT ![p] = "idle"]
    /\ UNCHANGED << nreq, response_result, sendRes, innerCalls, sendCalls,
                    mutexVars, handlerAlive, rxAlive, queue, workerVars, sent >>
    /\ UNCHANGED << sinkVars, clockVars, markVars, encVars >>

\* The server is shut down: the LogHandler is dropped, and with it the
\* Sender in its Mutex and the JoinHandle (which detaches the worker).
\* handle borrows &self, so no request is inside handle at that point.
DropHandler ==
    /\ handlerAlive
    /\ \A p \in Producers : pc[p] \in {"idle", "panicked"}
    /\ handlerAlive' = FALSE
    /\ senders' = senders - 1
    /\ UNCHANGED << producerVars, mutexVars, rxAlive, queue, workerVars, sent >>
    /\ UNCHANGED << sinkVars, clockVars, markVars, encVars >>

\* ------------------------------------------------------------ the worker
\* faulty variant: the worker coalesces, taking one packet and discarding the next
WorkerRecv_Coalesce ==
    /\ wpc = "recv"
    /\ queue # << >>
    /\ inflight' = Head(queue)
    /\ queue' = IF Len(queue) > 1 THEN Tail(Tail(queue)) ELSE Tail(queue)
    /\ wpc' = "logging"
    /\ UNCHANGED << producerVars, mutexVars, handlerAlive, senders, rxAlive,
                    sinkCalls, sent >>
    /\ UNCHANGED << sinkVars, clockVars, markVars, encVars >>

\* faulty variant: the worker takes the newest packet instead of the oldest
WorkerRecv_Lifo ==
    /\ wpc = "recv"
    /\ queue # << >>
    /\ inflight' = queue[Len(queue)]
    /\ queue' = SubSeq(queue, 1, Len(queue) - 1)
    /\ wpc' = "logging"
    /\ UNCHANGED << producerVars, mutexVars, handlerAlive, senders, rxAlive,
                    sinkCalls, sent >>
    /\ UNCHANGED << sinkVars, clockVars, markVars, encVars >>

\* `for packet in rx` (line 85): the next packet in queue order.
WorkerRecv ==
    /\ wpc = "recv"
    /\ queue # << >>
    /\ inflight' = Head(queue)
    /\ queue' = Tail(queue)
    /\ wpc' = "logging"
    /\ UNCHANGED << producerVars, mutexVars, handlerAlive, senders, rxAlive,
                    sinkCalls, sent >>
    /\ UNCHANGED << sinkVars, clockVars, markVars, encVars >>

\* faulty variant: the row is left in the csv::Writer, no flush
LogOk_NoFlush ==
    /\ wpc = "logging"
    /\ sinkCalls' = Append(sinkCalls, << inflight, TRUE >>)
    /\ inflight' = NoPacket
    /\ wpc' = "recv"
    /\ UNCHANGED << producerVars, mutexVars, handlerAlive, senders, rxAlive,
                    queue, sent >>
    /\ unflushed' = unflushed + 1
    /\ UNCHANGED << sink, clockVars, markVars, encVars >>

\* logger.log(&packet) returns Ok (line 86): next iteration.  For the
\* FileLogger (lines 72-75) the row has been encoded into the csv::Writer and
\* the writer flushed.
LogOk ==
    /\ wpc = "logging"
    /\ sinkCalls' = Append(sinkCalls, << inflight, TRUE >>)
    /\ inflight' = NoPacket
    /\ wpc' = "recv"
    /\ UNCHANGED << producerVars, mutexVars, handlerAlive, senders, rxAlive,
                    queue, sent >>
    /\ unflushed' = 0
    /\ UNCHANGED << sink, clockVars, markVars, encVars >>

\* faulty variant: the Err of log is swallowed and the loop goes on
LogFail_Continue ==
    /\ wpc = "logging"
    /\ sinkCalls' = Append(sinkCalls, << inflight, FALSE >>)
    /\ inflight' = NoPacket
    /\ wpc' = "recv"
    /\ UNCHANGED << producerVars, mutexVars, handlerAlive, senders, rxAlive,
                    queue, sent >>
    /\ \E u \in {unflushed, unflushed + 1} : unflushed' = u
    /\ UNCHANGED << sink, clockVars, markVars, encVars >>

\* logger.log(&packet) returns Err (line 86): expect panics, the thread
\* starts to unwind.  For the FileLogger the Err comes from encode (line 73,
\* nothing more is buffered) or from flush (line 74, the row stays buffered).
LogFail ==
    /\ wpc = "logging"
    /\ sinkCalls' = Append(sinkCalls, << inflight, FALSE >>)
    /\ inflight' = NoPacket
    /\ wpc' = "unwinding"
    /\ UNCHANGED << producerVars, mutexVars, handlerAlive, senders, rxAlive,
                    queue, sent >>
    /\ \E u \in {unflushed, unflushed + 1} : unflushed' = u
    /\ UNCHANGED << sink, clockVars, markVars, encVars >>

\* faulty variant: the dying worker still hands the queued packets to the sink
Unwind_Flush ==
    /\ wpc = "unwinding"
    /\ rxAlive' = FALSE
    /\ sinkCalls' = sinkCalls \o [i \in 1..Len(queue) |-> << queue[i], TRUE >>]
    /\ queue' = << >>
    /\ wpc' = "panicked"
    /\ UNCHANGED << producerVars, mutexVars, handlerAlive, senders,
                    inflight, sent >>
    /\ UNCHANGED << sinkVars, clockVars, markVars, encVars >>

\* The unwinding drops rx (moved into the closure, line 84): the channel is
\* disconnected and the packets still queued are dropped with it.
Unwind ==
    /\ wpc = "unwinding"
    /\ rxAlive' = FALSE
    /\ queue' = << >>
    /\ wpc' = "panicked"
    /\ UNCHANGED << producerVars, mutexVars, handlerAlive, senders,
                    inflight, sinkCalls, sent >>
    /\ UNCHANGED << sinkVars, clockVars, markVars, encVars >>

\* faulty variant: the loop ends as soon as every Sender is gone, queue drained or not
Disconnect_Early ==
    /\ wpc = "recv"
    /\ senders = 0
    /\ rxAlive' = FALSE
    /\ queue' = << >>
    /\ wpc' = "done"
    /\ UNCHANGED << producerVars, mutexVars, handlerAlive, senders,
                    inflight, sinkCalls, sent >>
    /\ UNCHANGED << sinkVars, clockVars, markVars, encVars >>

\* The iterator ends (line 85) when the queue is empty and every Sender has
\* been dropped; the closure returns and rx is dropped.
Disconnect ==
    /\ wpc = "recv"
    /\ queue = << >>
    /\ senders = 0
    /\ rxAlive' = FALSE
    /\ wpc' = "done"
    /\ UNCHANGED << producerVars, mutexVars, handlerAlive, senders, queue,
                    inflight, sinkCalls, sent >>
    /\ UNCHANGED << sinkVars, clockVars, markVars, encVars >>

Worker == WorkerRecv \/ LogOk \/ LogFail \/ Unwind \/ Disconnect

\* ---------------------------------------------------------- construction
\* State before anything is constructed.
InitBuild ==
    /\ pc = [p \in Producers |-> "idle"]
    /\ nreq = [p \in Producers |-> 0]
    /\ response_result = [p \in Producers |-> NoResult]
    /\ ret = [p \in Producers |-> NoResult]
    /\ sendRes = [p \in Producers |-> "none"]
    /\ innerCalls = [p \in Producers |-> 0]
    /\ sendCalls = [p \in Producers |-> 0]
    /\ mutexHolder = 0
    /\ poisoned = FALSE
    /\ handlerAlive = FALSE
    /\ senders = 0
    /\ rxAlive = FALSE
    /\ queue = << >>
    /\ wpc = "unspawned"
    /\ inflight = NoPacket
    /\ sinkCalls = << >>
    /\ sent = << >>
    /\ sink = "unopened"
    /\ unflushed = 0
    /\ wall = 0
    /\ mono = 0
    /\ start = [p \in Producers |-> 0]
    /\ before = [p \in Producers |-> 0]
    /\ timing = [p \in Producers |-> 0]
    /\ elapsed = [p \in Producers |-> 0]
    /\ encPkt = NoPacket
    /\ encRow = << >>

\* FileLogger::new(path) (lines 56-66): OpenOptions::open returns Ok, mapped
\* to a FileLogger, or Err, returned as it is.
OpenSink ==
    /\ sink = "unopened"
    /\ \E r \in {"open", "failed"} : sink' = r
    /\ UNCHANGED << producerVars, mutexVars, handlerAlive, senders, rxAlive,
                    queue, workerVars, sent, unflushed, clockVars, markVars,
                    encVars >>

\* faulty variant: the logger is built whatever FileLogger::new returned
NewLogger_Unchecked ==
    /\ sink # "unopened"
    /\ wpc = "unspawned"
    /\ senders' = 1
    /\ rxAlive' = TRUE
    /\ wpc' = "recv"
    /\ UNCHANGED << producerVars, mutexVars, handlerAlive, queue, inflight,
                    sinkCalls, sent, sinkVars, clockVars, markVars, encVars >>

\* StatisticLogger::new(logger) (lines 79-94): takes a LogWriter by value,
\* which for a FileLogger exists only after FileLogger::new returned Ok;
\* creates the channel and spawns the one worker thread.
NewLogger ==
    /\ sink = "open"
    /\ wpc = "unspawned"
    /\ senders' = 1
    /\ rxAlive' = TRUE
    /\ wpc' = "recv"
    /\ UNCHANGED << producerVars, mutexVars, handlerAlive, queue, inflight,
                    sinkCalls, sent, sinkVars, clockVars, markVars, encVars >>

\* StatisticLogger::around(handler) (lines 98-104): the Sender moves into
\* the LogHandler's Mutex; requests can be handled from now on.
Around ==
    /\ wpc = "recv"
    /\ ~handlerAlive
    /\ senders = 1
    /\ Started = 0
    /\ handlerAlive' = TRUE
    /\ UNCHANGED << producerVars, mutexVars, senders, rxAlive, queue,
                    workerVars, sent, sinkVars, clockVars, markVars, encVars >>

\* ------------------------------------------------------------ the clocks
\* Time passes: both clocks advance by one tick.  The history variable
\* counts the tick for every thread that is inside its inner handler.
Tick ==
    /\ mono < MaxClock
    /\ mono' = mono + 1
    /\ wall' = wall + 1
    /\ elapsed' = [p \in Producers |->
                      IF pc[p] = "inner" THEN elapsed[p] + 1 ELSE elapsed[p]]
    /\ UNCHANGED << producerVars, mutexVars, handlerAlive, senders, rxAlive,
                    queue, workerVars, sent, sinkVars, start, before, timing,
                    encVars >>

\* The wall clock is set (by an operator or a time daemon) to any other
\* value, forward or backward; the monotonic clock is not affected.
WallJump ==
    /\ \E w \in 0..MaxClock : w # wall /\ wall' = w
    /\ UNCHANGED << producerVars, mutexVars, handlerAlive, senders, rxAlive,
                    queue, workerVars, sent, sinkVars, mono, markVars,
                    encVars >>

\* ------------------------------------------------------------- encoding
\* Text is a sequence of one-character strings.
DigitChars == << "0", "1", "2", "3", "4", "5", "6", "7", "8", "9" >>

\* format!("{}", n) of an unsigned integer: its decimal digits, no padding
RECURSIVE ItoA(_)
ItoA(n) ==
    IF n < 10 THEN << DigitChars[n + 1] >>
              ELSE ItoA(n \div 10) \o << DigitChars[(n % 10) + 1] >>

\* encode_duration (lines 24-26): format!("{}.{}", as_secs(), subsec_nanos())
encode_duration(d) == ItoA(d.secs) \o << "." >> \o ItoA(d.nanos)

\* format!("{:?}", s) of an iron::status::Status (line 32): Status is an enum
\* with a derived Debug, which prints the name of the variant.
StatusDebug(c) ==
    CASE c = 200 -> << "O", "k" >>
      [] c = 404 -> << "N", "o", "t", "F", "o", "u", "n", "d" >>
      [] c = 500 -> << "I", "n", "t", "e", "r", "n", "a", "l", "S", "e", "r",
                       "v", "e", "r", "E", "r", "r", "o", "r" >>

\* self.status.as_ref().map(|s| format!("{:?}", s)).encode(s) (line 32):
\* None is emitted as an empty field.
EncodeStatus(st) == IF st = NoStatus THEN << >> ELSE StatusDebug(st)

\* LogPacket::encode (lines 29-36): url, ip, status, start, timing.  url and
\* ip are given in their to_string() form; start is given as the duration
\* since UNIX_EPOCH (line 33).
EncodePacket(pkt) ==
    << pkt.url, pkt.ip, EncodeStatus(pkt.status),
       encode_duration(pkt.start), encode_duration(pkt.timing) >>

\* Packets offered to the encoder.
EncStatuses == { NoStatus, 200, 404, 500 }
EncSecs     == { 0, 1, 1478000000 }
EncNanos    == { 0, 5, 5000000, 123456789, 500000000, 999999999 }
EncDurations == [ secs : EncSecs, nanos : EncNanos ]
EncInputs ==
    [ url : { "http://localhost/a" }, ip : { "127.0.0.1:4000" },
      status : EncStatuses, start : EncDurations, timing : EncDurations ]

InitEnc ==
    /\ pc = [p \in Producers |-> "idle"]
    /\ nreq = [p \in Producers |-> 0]
    /\ response_result = [p \in Producers |-> NoResult]
    /\ ret = [p \in Producers |-> NoResult]
    /\ sendRes = [p \in Producers |-> "none"]
    /\ innerCalls = [p \in Producers |-> 0]
    /\ sendCalls = [p \in Producers |-> 0]
    /\ mutexHolder = 0
    /\ poisoned = FALSE
    /\ handlerAlive = TRUE
    /\ senders = 1
    /\ rxAlive = TRUE
    /\ queue = << >>
    /\ wpc = "recv"
    /\ inflight = NoPacket
    /\ sinkCalls = << >>
    /\ sent = << >>
    /\ sink = "open"
    /\ unflushed = 0
    /\ wall = 0
    /\ mono = 0
    /\ start = [p \in Producers |-> 0]
    /\ before = [p \in Producers |-> 0]
    /\ timing = [p \in Producers |-> 0]
    /\ elapsed = [p \in Producers |-> 0]
    /\ encPkt \in EncInputs
    /\ encRow = << >>

\* self.0.encode(packet) (line 73) runs LogPacket::encode on the packet.
Encode ==
    /\ encPkt # NoPacket
    /\ encRow = << >>
    /\ encRow' = EncodePacket(encPkt)
    /\ UNCHANGED << producerVars, mutexVars, handlerAlive, senders, rxAlive,
                    queue, workerVars, sent, sinkVars, clockVars, markVars,
                    encPkt >>

NextEnc == Encode

SpecEnc == InitEnc /\ [][NextEnc]_vars

Next ==
    \/ \E p \in Producers : Begin(p)
    \/ \E p \in Producers : InnerHandle(p)
    \/ \E p \in Producers : Lock(p)
    \/ \E p \in Producers : CloneTx(p)
    \/ \E p \in Producers : Send(p)
    \/ \E p \in Producers : Return(p)
    \/ DropHandler
    \/ WorkerRecv
    \/ LogOk
    \/ LogFail
    \/ Unwind
    \/ Disconnect

Spec == Init /\ [][Next]_vars

NextBuild ==
    \/ OpenSink
    \/ NewLogger
    \/ Around
    \/ Next

\* The program from before the sink is opened.
SpecBuild == InitBuild /\ [][NextBuild]_vars

\* One request, on any thread, with the clocks running: time may pass
\* between any two steps of handle (a thread that waits for the Mutex or is
\* descheduled simply takes its next step later).
NextTime ==
    \/ Tick
    \/ WallJump
    \/ \E p \in Producers : Started = 0 /\ Begin(p)
    \/ \E p \in Producers : InnerHandle(p)
    \/ \E p \in Producers : Lock(p)
    \/ \E p \in Producers : CloneTx(p)
    \/ \E p \in Producers : Send(p)
    \/ \E p \in Producers : Return(p)

SpecTime == Init /\ [][NextTime]_vars

\* The worker is an OS thread of its own: it is always eventually scheduled.
FairSpec == Spec /\ WF_vars(Worker)

TypeOK ==
    /\ pc \in [Producers -> {"idle", "inner", "handled", "locked", "cloned",
                             "sent", "panicked"}]
    /\ nreq \in [Producers -> 0..MaxRequests]
    /\ sendRes \in [Producers -> {"none", "ok", "err"}]
    /\ mutexHolder \in 0..NumProducers
    /\ poisoned \in BOOLEAN
    /\ handlerAlive \in BOOLEAN
    /\ senders \in 0..(NumProducers + 1)
    /\ rxAlive \in BOOLEAN
    /\ wpc \in {"unspawned", "recv", "logging", "unwinding", "panicked", "done"}
    /\ sink \in {"unopened", "open", "failed"}
    /\ unflushed \in 0..1
    /\ Len(queue) <= MaxRequests
    /\ Len(sinkCalls) <= MaxRequests

\* ======================================================================
\* Properties
\* ======================================================================
\* the packets passed to logger.log so far, in call order
Logged == [i \in 1..Len(sinkCalls) |-> sinkCalls[i][1]]

\* some call of logger.log has returned Err
SinkFailed == \E i \in 1..Len(sinkCalls) : ~sinkCalls[i][2]

\* the worker has received everything that was sent
WorkerDrained ==
    \/ wpc = "recv" /\ rxAlive /\ queue = << >>
    \/ wpc = "done"

WorkerTerminated == wpc \in {"done", "panicked"}

\* thread p has left its latest call of handle, by return or by panic
Returned(p) == pc[p] = "idle" /\ ret[p] # NoResult
Finished(p) == Returned(p) \/ pc[p] = "panicked"

\* number of entries of sequence s that belong to request n of thread p
CountOf(s, p, n) ==
    Cardinality({ i \in 1..Len(s) : s[i].prod = p /\ s[i].seq = n })

\* C1: once the worker has drained the queue, the sink has received exactly
\* one log call per submitted record, each carrying the record as submitted
\* (no loss, no duplication, no alteration).
C1_NoLossNoDup == WorkerDrained => Logged = sent

C1_Witness ==
    /\ WorkerDrained
    /\ Len(sent) = MaxRequests
    /\ \E i, j \in 1..Len(sent) : sent[i].prod # sent[j].prod

\* C2: a failure of sink.log never becomes a failure of the request path:
\* after a sink.log call has failed, no call of handle ends in a panic.
C2_SinkErrorIsolated ==
    SinkFailed => \A p \in Producers : pc[p] # "panicked"

\* C3: two records of the same producer reach the sink in the order in
\* which that producer submitted them.
C3_FifoPerProducer ==
    \A i, j \in 1..Len(sinkCalls) :
        (i < j /\ Logged[i].prod = Logged[j].prod)
            => Logged[i].seq < Logged[j].seq

C3_Witness ==
    \E i, j, k \in 1..Len(sinkCalls) :
        /\ i < k /\ k < j
        /\ Logged[i].prod = Logged[j].prod
        /\ Logged[k].prod # Logged[i].prod

\* C4: the value handle returns is the inner handler's result, unchanged
\* (same branch, same status), whether or not the record has been written.
C4_Transparent ==
    \A p \in Producers : Returned(p) => ret[p] = response_result[p]

C4_Witness ==
    \E p \in Producers :
        /\ Returned(p)
        /\ ~ret[p].ok
        /\ CountOf(queue, p, nreq[p]) = 1
        /\ CountOf(Logged, p, nreq[p]) = 0

\* C5: a call of handle whose inner handler returned has invoked the inner
\* handler exactly once and has handed exactly one LogPacket to send; when
\* handle returns, exactly one record of the request has been submitted.
C5_OneRecordPerRequest ==
    \A p \in Producers :
        /\ Finished(p) => (innerCalls[p] = 1 /\ sendCalls[p] = 1)
        /\ Returned(p) => CountOf(sent, p, nreq[p]) = 1

C5_Witness ==
    /\ \E p \in Producers : Returned(p) /\ ~response_result[p].ok /\ nreq[p] = 2
    /\ \E p \in Producers : Returned(p) /\ response_result[p].ok

\* C6: a failed sink.log call is the last one: the worker stops, the failed
\* record is not passed again and no later record is passed to the sink.
C6_SinkErrorFatal ==
    /\ \A i \in 1..Len(sinkCalls) : ~sinkCalls[i][2] => i = Len(sinkCalls)
    /\ SinkFailed => (wpc \in {"unwinding", "panicked"} /\ inflight = NoPacket)

C6_Witness ==
    /\ SinkFailed
    /\ wpc = "panicked"
    /\ Len(sinkCalls) >= 2
    /\ Len(sent) > Len(sinkCalls)

\* C7: while the receiver has not been dropped, the send step of a request
\* thread succeeds and places the record on the queue.
C7_SendOkWhileAlive ==
    [][ \A p \in Producers :
          (pc[p] = "cloned" /\ pc'[p] # "cloned" /\ rxAlive)
              => (sendRes'[p] = "ok" /\ queue' = Append(queue, MkPacket(p))) ]_vars

C7_Witness ==
    \E p \in Producers :
        /\ sendRes[p] = "ok"
        /\ rxAlive
        /\ Len(queue) >= 2
        /\ queue[Len(queue)] = MkPacket(p)

\* C8: when the send of a record fails, handle ends in a panic: it never
\* returns normally after a failed send.
C8_SendErrPanics ==
    \A p \in Producers :
        sendRes[p] = "err" => (pc[p] = "panicked" /\ ret[p] = NoResult)

C8_Witness ==
    \E p \in Producers : sendRes[p] = "err" /\ pc[p] = "panicked"

\* C9: the enqueue step of a request thread is enabled whatever the worker
\* is doing and however many records are queued.
C9_SendNeverBlocks ==
    \A p \in Producers : pc[p] = "cloned" => ENABLED Send(p)

C9_Witness ==
    \E p \in Producers :
        /\ pc[p] = "cloned"
        /\ wpc = "logging"
        /\ Len(queue) >= 1
        /\ sendRes[p] = "none"

C11_SingleConsumer ==
    [][ (sinkCalls' # sinkCalls \/ inflight' # inflight)
          => /\ pc' = pc
             /\ wpc' # wpc
             /\ sinkCalls' # sinkCalls
                  => /\ wpc = "logging"
                     /\ Len(sinkCalls') = Len(sinkCalls) + 1
                     /\ sinkCalls'[Len(sinkCalls')][1] = inflight ]_vars

C11_Witness ==
    /\ wpc = "logging"
    /\ Len(sinkCalls) >= 1
    /\ \E p, q \in Producers : p # q /\ pc[p] = "cloned" /\ pc[q] = "sent"

\* C18: while the LogHandler is alive and no sink.log call has failed, the
\* worker has not terminated and the channel is connected, however many
\* per-request clones have been dropped.
C18_WorkerAliveWhileHandler ==
    (handlerAlive /\ ~SinkFailed)
        => (wpc \in {"recv", "logging"} /\ rxAlive /\ senders >= 1)

C18_Witness ==
    /\ handlerAlive
    /\ ~SinkFailed
    /\ Len(sinkCalls) = MaxRequests
    /\ \A p \in Producers : Returned(p)
    /\ senders = 1
    /\ wpc = "recv"

\* C19: the sender mutex is never poisoned: the guard is held only at the
\* clone step and never at send, and a request thread panics only at a
\* failed send, never at the lock step.
C19_NeverPoisoned ==
    /\ ~poisoned
    /\ \A p \in Producers :
          /\ mutexHolder = p => pc[p] = "locked"
          /\ pc[p] = "panicked" => (sendRes[p] = "err" /\ sendCalls[p] = 1)

C19_Witness ==
    \E p, q \in Producers :
        /\ pc[p] = "panicked"
        /\ pc[q] = "locked"
        /\ mutexHolder = q

\* C20: once the worker is dying or dead from a sink.log failure no further
\* record is passed to the sink; a thread whose send succeeded does not
\* panic, whether or not its record was discarded; a send fails only when
\* the receiver has already been dropped.
C20_QueuedAtDeathDiscarded ==
    /\ [][ (wpc \in {"unwinding", "panicked"}) => (sinkCalls' = sinkCalls) ]_vars
    /\ [][ (rxAlive /\ ~rxAlive' /\ wpc = "unwinding")
             => (queue' = << >> /\ pc' = pc /\ sendRes' = sendRes) ]_vars
    /\ [](\A p \in Producers :
             /\ sendRes[p] = "ok" => pc[p] # "panicked"
             /\ sendRes[p] = "err" => (~rxAlive /\ CountOf(sent, p, nreq[p]) = 0))

C20_Witness ==
    /\ wpc = "panicked"
    /\ \E p, q \in Producers :
          /\ Returned(p)
          /\ CountOf(sent, p, nreq[p]) = 1
          /\ CountOf(Logged, p, nreq[p]) = 0
          /\ sendRes[q] = "err"

\* C12: when the sink cannot be opened no logger exists and no worker is
\* started; a worker exists only after the sink was opened successfully.
C12_NoWorkerWithoutSink ==
    /\ wpc # "unspawned" => sink = "open"
    /\ sink # "open"
          => /\ wpc = "unspawned"
             /\ ~handlerAlive
             /\ ~rxAlive
             /\ senders = 0
             /\ Started = 0
             /\ sinkCalls = << >>

C12_Witness ==
    /\ sink = "failed"
    /\ wpc = "unspawned"
    /\ ~ENABLED NextBuild

\* C13: every row the file sink accepts is flushed before the worker takes
\* the next packet: at most one record is dequeued and not yet flushed.
C13_FlushPerRecord ==
    /\ [](unflushed + (IF inflight # NoPacket THEN 1 ELSE 0) <= 1)
    /\ [](wpc = "recv" => unflushed = 0)
    /\ [][ (inflight' # NoPacket /\ inflight = NoPacket) => unflushed = 0 ]_vars

C13_Witness ==
    /\ wpc = "logging"
    /\ unflushed = 0
    /\ Len(sinkCalls) >= 2
    /\ ~SinkFailed

\* thread p is past time_it in its current call of handle
Timed(p) == pc[p] \in {"handled", "locked", "cloned", "sent"} \/ Returned(p)

\* C15: the recorded duration equals the monotonic time that passed between
\* the invocation and the return of the inner handler; it is never negative
\* and does not depend on what the wall clock did in between.
C15_MonotonicDuration ==
    \A p \in Producers :
        Timed(p) => (timing[p] = elapsed[p] /\ timing[p] >= 0)

C15_Witness ==
    \E p \in Producers :
        /\ pc[p] = "handled"
        /\ timing[p] >= 2
        /\ wall < start[p]

\* C17: start and duration are fixed when the inner handler returns: the
\* marks are taken around the inner handler only, nothing after its return
\* (lock, clone, send, waiting for other threads) changes them, and the
\* record that is sent carries exactly these values.
C17_OnlyInnerHandlerTimed ==
    /\ [](\A p \in Producers :
            /\ pc[p] = "inner" => DurationSince(mono, before[p]) = elapsed[p]
            /\ sendRes[p] = "ok"
                 => \E i \in 1..Len(sent) :
                       /\ sent[i].prod = p /\ sent[i].seq = nreq[p]
                       /\ sent[i].timing = elapsed[p]
                       /\ sent[i].start = start[p])
    /\ [][ \A p \in Producers :
             (Timed(p) /\ pc'[p] # "inner")
                 => (timing'[p] = timing[p] /\ start'[p] = start[p]) ]_vars

C17_Witness ==
    \E p \in Producers :
        /\ pc[p] = "sent"
        /\ timing[p] = 1
        /\ DurationSince(mono, before[p]) = 3
        /\ Len(sent) = 1
        /\ sent[1].timing = 1

\* ------------------------------------------------ reading an encoded row
DigitVal(ch) == CHOOSE d \in 0..9 : DigitChars[d + 1] = ch

RECURSIVE AtoI(_)
AtoI(t) ==
    IF Len(t) = 0 THEN 0
    ELSE 10 * AtoI(SubSeq(t, 1, Len(t) - 1)) + DigitVal(t[Len(t)])

RECURSIVE Pow10(_)
Pow10(k) == IF k = 0 THEN 1 ELSE 10 * Pow10(k - 1)

DotAt(t) == CHOOSE i \in 1..Len(t) : t[i] = "."

\* a field of the shape whole.fractional: digits, one dot, 1 to 9 digits
TwoPart(t) ==
    /\ Cardinality({ i \in 1..Len(t) : t[i] = "." }) = 1
    /\ DotAt(t) > 1
    /\ Len(t) - DotAt(t) \in 1..9

\* the seconds and nanoseconds that the decimal number whole.fractional denotes
ReadSeconds(t) ==
    LET whole == SubSeq(t, 1, DotAt(t) - 1)
        frac  == SubSeq(t, DotAt(t) + 1, Len(t))
    IN  [ secs |-> AtoI(whole), nanos |-> AtoI(frac) * Pow10(9 - Len(frac)) ]

\* C14: the status field of the row is the numeric code of the packet's
\* status ("200", "500"), and the empty field when there is no status.
C14_StatusAsCode ==
    encRow # << >>
        => encRow[3] = (IF encPkt.status = NoStatus THEN << >>
                                                    ELSE ItoA(encPkt.status))

\* C16: the start and duration fields have the shape whole.fractional and,
\* read as decimal seconds, denote exactly the seconds and nanoseconds of
\* the packet.
C16_ExactSubSecond ==
    encRow # << >>
        => /\ TwoPart(encRow[4]) /\ ReadSeconds(encRow[4]) = encPkt.start
           /\ TwoPart(encRow[5]) /\ ReadSeconds(encRow[5]) = encPkt.timing
====
